---- MODULE Spec2Model ----
(***************************************************************************)
(* Company-name matching engine of rougesteelproject/NER:                  *)
(*   create_tries.py      clean_name, create_and_pickle_tries (Builder)    *)
(*   search_companies.py  STOP_WORDS, clean_name, CompanyNameSearcher      *)
(*   process_candidates.py  the caller mapping find_company_names over a   *)
(*                          text column                                    *)
(* A Python str is a sequence of one-character strings; "" is << >>.       *)
(* Python indices are 0-based, the sequences here 1-based: Python's        *)
(* s[j] is s[j + 1] here.                                                  *)
(***************************************************************************)
EXTENDS Integers, Sequences, FiniteSets, TLC

VARIABLES
    names,             \* the 'name' column of the CSV given to the Builder
    chunk_size,        \* create_and_pickle_tries' chunk_size argument
    corpus,            \* which 'text' column the callers read: its name
    pcB,               \* Builder position: "start", "loop", "done"
    processed_names,   \* sorted list of (cleaned_name, original_name)
    trie_count,        \* Builder loop counter
    chunk_lens,        \* len(chunk_data) of each chunk, as the Builder prints it
    dir_exists,        \* os.path.exists(output_dir)
    files,             \* the directory: the pickled chunk of trie_chunk_n.pkl, by n
    ncorrupt,          \* number of chunk artifacts damaged on disk
    pcL,               \* CompanyNameSearcher(): "none", "loading", "loaded", "raised"
    listing,           \* file names load_tries has still to visit
    tries_with_ranges, \* CompanyNameSearcher.tries_with_ranges
    calls,             \* per caller: the running find_company_names call
    cx,                \* normalizer harness: the input
    cy                 \* normalizer harness: the outputs computed so far

vars == <<names, chunk_size, corpus, pcB, processed_names, trie_count,
          chunk_lens, dir_exists, files, ncorrupt, pcL, listing, tries_with_ranges,
          calls, cx, cy>>

inputVars == <<names, chunk_size, corpus>>
buildVars == <<pcB, processed_names, trie_count, chunk_lens, dir_exists>>
loadVars == <<pcL, listing, tries_with_ranges>>
harnessVars == <<cx, cy>>
pipelineVars == <<inputVars, buildVars, files, ncorrupt, loadVars, calls>>

-----------------------------------------------------------------------------
(* Characters *)

\* The grave accent (code point 96), which a TLA+ string cannot hold.
GRAVE == "<grave>"

\* The printable ASCII characters in code-point order, 32 (space) to 126.
AsciiPrintable ==
    <<" ", "!", "\"", "#", "$", "%", "&", "'", "(", ")", "*", "+", ",",
      "-", ".", "/", "0", "1", "2", "3", "4", "5", "6", "7", "8", "9", ":",
      ";", "<", "=", ">", "?", "@", "A", "B", "C", "D", "E", "F", "G", "H",
      "I", "J", "K", "L", "M", "N", "O", "P", "Q", "R", "S", "T", "U", "V",
      "W", "X", "Y", "Z", "[", "\\", "]", "^", "_", GRAVE, "a", "b", "c",
      "d", "e", "f", "g", "h", "i", "j", "k", "l", "m", "n", "o", "p", "q",
      "r", "s", "t", "u", "v", "w", "x", "y", "z", "{", "|", "}", "~">>

\* ord(c): Python compares str (sorted, Polars sort on Utf8) by code point.
Ord(c) ==
    IF c = "\t" THEN 9
    ELSE 31 + (CHOOSE k \in 1..Len(AsciiPrintable) : AsciiPrintable[k] = c)

ascii_uppercase ==
    <<"A", "B", "C", "D", "E", "F", "G", "H", "I", "J", "K", "L", "M", "N",
      "O", "P", "Q", "R", "S", "T", "U", "V", "W", "X", "Y", "Z">>

ascii_lowercase ==
    <<"a", "b", "c", "d", "e", "f", "g", "h", "i", "j", "k", "l", "m", "n",
      "o", "p", "q", "r", "s", "t", "u", "v", "w", "x", "y", "z">>

digits == {"0", "1", "2", "3", "4", "5", "6", "7", "8", "9"}

\* string.punctuation
string_punctuation ==
    {"!", "\"", "#", "$", "%", "&", "'", "(", ")", "*", "+", ",", "-", ".",
     "/", ":", ";", "<", "=", ">", "?", "@", "[", "\\", "]", "^", "_", GRAVE,
     "{", "|", "}", "~"}

\* str.isspace on the characters of the model
IsSpace(c) == c \in {" ", "\t"}

\* str.isalnum on one character
isalnum(c) ==
    \/ c \in digits
    \/ \E k \in 1..26 : c = ascii_lowercase[k] \/ c = ascii_uppercase[k]

\* the regex class \w: alphanumeric or underscore
IsWordChar(c) == isalnum(c) \/ c = "_"

\* str.lower on one character
LowerChar(c) ==
    IF \E k \in 1..26 : c = ascii_uppercase[k]
    THEN ascii_lowercase[CHOOSE k \in 1..26 : c = ascii_uppercase[k]]
    ELSE c

-----------------------------------------------------------------------------
(* Strings *)

\* a value that is not a str (None, a null CSV cell)
None == <<"<None>">>

isinstance_str(v) == v # None

\* str.lower
lower(s) == [k \in 1..Len(s) |-> LowerChar(s[k])]

\* str.strip: drop leading and trailing whitespace
RECURSIVE lstrip(_)
lstrip(s) ==
    IF s # << >> /\ IsSpace(Head(s)) THEN lstrip(Tail(s)) ELSE s

RECURSIVE rstrip(_)
rstrip(s) ==
    IF s # << >> /\ IsSpace(s[Len(s)])
    THEN rstrip(SubSeq(s, 1, Len(s) - 1)) ELSE s

strip(s) == rstrip(lstrip(s))

\* name.translate(...): delete every character of string.punctuation
translate_delete_punctuation(s) ==
    SelectSeq(s, LAMBDA c : c \notin string_punctuation)

\* re.sub(r'[^\w\s]', '', name)
re_sub_non_word_non_space(s) ==
    SelectSeq(s, LAMBDA c : IsWordChar(c) \/ IsSpace(c))

\* create_tries.clean_name
clean_name_build(name) ==
    IF ~isinstance_str(name) THEN << >>
    ELSE translate_delete_punctuation(lower(strip(name)))

\* search_companies.clean_name
clean_name_search(name) ==
    IF ~isinstance_str(name) THEN << >>
    ELSE re_sub_non_word_non_space(lower(strip(name)))

\* Python's < on str: lexicographic by code point, a proper prefix first
RECURSIVE StrLess(_, _)
StrLess(a, b) ==
    IF b = << >> THEN FALSE
    ELSE IF a = << >> THEN TRUE
    ELSE IF Head(a) # Head(b) THEN Ord(Head(a)) < Ord(Head(b))
    ELSE StrLess(Tail(a), Tail(b))

StrLeq(a, b) == a = b \/ StrLess(a, b)

\* the str as one TLA+ string, to look it up in STOP_WORDS
RECURSIVE Str(_)
Str(s) == IF s = << >> THEN "" ELSE Head(s) \o Str(Tail(s))

\* search_companies.STOP_WORDS
STOP_WORDS == {
    "a", "an", "the", "and", "or", "but", "not", "for", "on", "in", "at", "with",
    "as", "by", "from", "up", "down", "out", "off", "over", "under", "again",
    "further", "then", "once", "here", "there", "when", "where", "why", "how",
    "all", "any", "both", "each", "few", "more", "most", "other", "some", "such",
    "no", "nor", "only", "own", "same", "so", "than", "too", "very", "s", "t",
    "can", "will", "just", "don", "should", "now", "this", "that", "these", "those",
    "i", "me", "my", "myself", "we", "our", "ours", "ourselves", "you", "your",
    "yours", "yourself", "yourselves", "he", "him", "his", "himself", "she", "her",
    "hers", "herself", "it", "its", "itself", "they", "them", "their", "theirs",
    "themselves", "what", "which", "who", "whom", "whose", "this", "that", "these",
    "those", "am", "is", "are", "was", "were", "be", "been", "being", "have", "has",
    "had", "having", "do", "does", "did", "doing", "would", "should", "could",
    "ought", "i'm", "you're", "he's", "she's", "it's", "we're", "they're", "i've",
    "you've", "we've", "they've", "i'd", "you'd", "he'd", "she'd", "we'd", "they'd",
    "i'll", "you'll", "he'll", "she'll", "we'll", "they'll", "isn't", "aren't",
    "wasn't", "weren't", "hasn't", "haven't", "hadn't", "doesn't", "don't", "didn't",
    "won't", "wouldn't", "shan't", "shouldn't", "can't", "cannot", "couldn't",
    "mustn't", "let's", "that's", "who's", "what's", "here's", "there's", "when's",
    "where's", "why's", "how's", "a", "b", "c", "d", "e", "f", "g", "h", "i", "j",
    "k", "l", "m", "n", "o", "p", "q", "r", "s", "t", "u", "v", "w", "x", "y", "z"
}

-----------------------------------------------------------------------------
(* Bounds and input alphabets *)

\* the characters inputs are drawn from: a lowercase stop word letter pair,
\* an uppercase letter, whitespace, ASCII punctuation, the underscore
Chars == {"i", "t", "I", " ", ".", "_"}

MaxLen == 3

StringsUpTo(n) == UNION {[1..k -> Chars] : k \in 0..n}

\* no output computed yet
Unset == <<"<unset>">>

-----------------------------------------------------------------------------
(* The state before anything ran *)

NoCall == [pc |-> "idle", text |-> None, cleaned_text |-> << >>, k |-> 1,
           found_names |-> {}, returned |-> FALSE, result |-> {}]

PipelineIdle ==
    /\ pcB = "start"
    /\ processed_names = << >>
    /\ trie_count = 0
    /\ chunk_lens = << >>
    /\ dir_exists = FALSE
    /\ files = << >>
    /\ ncorrupt = 0
    /\ pcL = "none"
    /\ listing = << >>
    /\ tries_with_ranges = << >>

HarnessIdle ==
    /\ cx = None
    /\ cy = [b |-> Unset, s |-> Unset, bb |-> Unset, ss |-> Unset]

-----------------------------------------------------------------------------
(* Normalizer harness: both clean_name functions applied to one input, and *)
(* again to their own output.                                              *)

InitClean ==
    /\ cx \in StringsUpTo(MaxLen) \cup {None}
    /\ cy = [b |-> Unset, s |-> Unset, bb |-> Unset, ss |-> Unset]
    /\ names = << >>
    /\ chunk_size = 1
    /\ corpus = "none"
    /\ calls = << >>
    /\ PipelineIdle

\* the Builder's call: clean_name(x)
BuildClean ==
    /\ cy.b = Unset
    /\ cy' = [cy EXCEPT !.b = clean_name_build(cx)]
    /\ UNCHANGED <<cx, pipelineVars>>

\* the Matcher's call: clean_name(text)
SearchClean ==
    /\ cy.s = Unset
    /\ cy' = [cy EXCEPT !.s = clean_name_search(cx)]
    /\ UNCHANGED <<cx, pipelineVars>>

\* create_tries.clean_name applied to its own output
BuildReclean ==
    /\ cy.b # Unset
    /\ cy.bb = Unset
    /\ cy' = [cy EXCEPT !.bb = clean_name_build(cy.b)]
    /\ UNCHANGED <<cx, pipelineVars>>

\* search_companies.clean_name applied to its own output
SearchReclean ==
    /\ cy.s # Unset
    /\ cy.ss = Unset
    /\ cy' = [cy EXCEPT !.ss = clean_name_search(cy.s)]
    /\ UNCHANGED <<cx, pipelineVars>>

NextClean ==
    \/ BuildClean
    \/ SearchClean
    \/ BuildReclean
    \/ SearchReclean

SpecClean == InitClean /\ [][NextClean]_vars

-----------------------------------------------------------------------------
(* Automaton Builder: create_tries.create_and_pickle_tries *)

\* str(n) for n >= 0, as the f-string formats trie_count + 1
RECURSIVE str_int(_)
str_int(n) ==
    IF n < 10 THEN <<AsciiPrintable[17 + n]>>
    ELSE str_int(n \div 10) \o <<AsciiPrintable[17 + (n % 10)]>>

\* f"trie_chunk_{n}.pkl" (os.path.join only prefixes the directory)
output_file(n) ==
    <<"t", "r", "i", "e", "_", "c", "h", "u", "n", "k", "_">>
        \o str_int(n) \o <<".", "p", "k", "l">>

\* the rows (cleaned_name, name) of the frame after with_columns and filter:
\* a null name never reaches clean_name and gets no cleaned_name to keep
cleaned_rows(col) ==
    SelectSeq([k \in 1..Len(col) |-> <<clean_name_build(col[k]), col[k]>>],
              LAMBDA row : row[2] # None /\ row[1] # << >>)

RemoveAt(seq, i) == SubSeq(seq, 1, i - 1) \o SubSeq(seq, i + 1, Len(seq))

\* df.sort("cleaned_name"): ascending by cleaned_name; maintain_order is
\* not requested, so rows with equal cleaned_name may come out in any order
RECURSIVE polars_sort(_)
polars_sort(rows) ==
    IF rows = << >> THEN {<< >>}
    ELSE UNION {
        {<<rows[i]>> \o rest : rest \in polars_sort(RemoveAt(rows, i))} :
        i \in {j \in 1..Len(rows) :
                 \A m \in 1..Len(rows) : StrLeq(rows[j][1], rows[m][1])}}

\* a slice one row too long: processed_names[i:i + chunk_size + 1]
chunk_slice_one_more(rows, i, size) ==
    SubSeq(rows, i + 1,
           IF i + size + 1 < Len(rows) THEN i + size + 1 ELSE Len(rows))

\* processed_names[i:i + chunk_size] with the 0-based i
chunk_slice(rows, i, size) ==
    SubSeq(rows, i + 1, IF i + size < Len(rows) THEN i + size ELSE Len(rows))

\* the Automaton after add_word(cleaned_name, (original_name, cleaned_name))
\* for each row in order: a word added again replaces its value
automaton(chunk_data) ==
    [w \in {chunk_data[k][1] : k \in 1..Len(chunk_data)} |->
        LET last == CHOOSE k \in 1..Len(chunk_data) :
                        /\ chunk_data[k][1] = w
                        /\ \A m \in (k + 1)..Len(chunk_data) :
                               chunk_data[m][1] # w
        IN  <<chunk_data[last][2], chunk_data[last][1]>>]

\* trie_data as pickled: the trie and (min_name, max_name)
trie_data(chunk_data) ==
    [ok |-> TRUE,
     trie |-> automaton(chunk_data),
     range |-> IF chunk_data = << >> THEN <<<< >>, << >>>>
               ELSE <<chunk_data[1][1], chunk_data[Len(chunk_data)][1]>>]

\* the for loop's i: range(0, len(processed_names), chunk_size) advances
\* with trie_count
loop_i == trie_count * chunk_size

\* lines 22-47: makedirs, read the CSV, clean, filter, sort
BuildStart ==
    /\ pcB = "start"
    /\ pcL = "none"
    /\ dir_exists' = TRUE
    /\ processed_names' \in polars_sort(cleaned_rows(names))
    /\ trie_count' = 0
    /\ pcB' = "loop"
    /\ UNCHANGED <<inputVars, chunk_lens, files, ncorrupt, loadVars, calls,
                   harnessVars>>

\* lines 48-74: one iteration of the chunk loop
BuildChunk ==
    /\ pcB = "loop"
    /\ loop_i < Len(processed_names)
    /\ LET chunk_data == chunk_slice(processed_names, loop_i, chunk_size)
       IN  /\ files' = ((trie_count + 1) :> trie_data(chunk_data)) @@ files
           /\ chunk_lens' = Append(chunk_lens, Len(chunk_data))
    /\ trie_count' = trie_count + 1
    /\ UNCHANGED <<inputVars, pcB, processed_names, dir_exists, ncorrupt,
                   loadVars, calls, harnessVars>>

\* line 76: the loop is exhausted
BuildDone ==
    /\ pcB = "loop"
    /\ loop_i >= Len(processed_names)
    /\ pcB' = "done"
    /\ UNCHANGED <<inputVars, processed_names, trie_count, chunk_lens,
                   dir_exists, files, ncorrupt, loadVars, calls, harnessVars>>

-----------------------------------------------------------------------------
(* Damage to a chunk artifact on disk, between the build and the load *)

MaxCorrupt == 1

\* what is left of a chunk artifact that pickle.load cannot read
unreadable == [ok |-> FALSE, trie |-> << >>, range |-> <<<< >>, << >>>>]

Corrupt(f) ==
    /\ pcB = "done"
    /\ pcL = "none"
    /\ ncorrupt < MaxCorrupt
    /\ files[f].ok
    /\ files' = [files EXCEPT ![f] = unreadable]
    /\ ncorrupt' = ncorrupt + 1
    /\ UNCHANGED <<inputVars, buildVars, loadVars, calls, harnessVars>>

-----------------------------------------------------------------------------
(* Automaton Chunk Store: CompanyNameSearcher.__init__ and load_tries *)

\* sorted(os.listdir(tries_dir)): ascending by Python's str order
RECURSIVE sorted(_)
sorted(S) ==
    IF S = {} THEN << >>
    ELSE LET least == CHOOSE x \in S : \A y \in S : StrLeq(x, y)
         IN  <<least>> \o sorted(S \ {least})

\* os.listdir(tries_dir): the names of the files in the directory
os_listdir == {output_file(n) : n \in DOMAIN files}

\* the n of a listed file name trie_chunk_n.pkl
ordinal_of(filename) == CHOOSE n \in DOMAIN files : output_file(n) = filename

\* the listing load_tries iterates, each file given by its n
sorted_listing ==
    LET filenames == sorted(os_listdir)
    IN  [k \in 1..Len(filenames) |-> ordinal_of(filenames[k])]

\* filename.endswith(".pkl")
endswith_pkl(filename) ==
    /\ Len(filename) >= 4
    /\ SubSeq(filename, Len(filename) - 3, Len(filename))
           = <<".", "p", "k", "l">>

\* the tuple (trie, min_name, max_name) load_tries appends
registry_entry(data) == <<data.trie, data.range[1], data.range[2]>>

\* load_tries without the os.path.exists check: os.listdir raises on a
\* missing directory
Construct_no_exists_check ==
    /\ pcL = "none"
    /\ pcB \in {"start", "done"}
    /\ tries_with_ranges' = << >>
    /\ IF ~dir_exists
       THEN /\ pcL' = "raised"
            /\ listing' = << >>
       ELSE /\ pcL' = "loading"
            /\ listing' = sorted_listing
    /\ UNCHANGED <<inputVars, buildVars, files, ncorrupt, calls, harnessVars>>

\* __init__ and lines 45-52 of load_tries: the registry starts empty, a
\* missing directory is reported and load_tries returns
Construct ==
    /\ pcL = "none"
    /\ pcB \in {"start", "done"}
    /\ tries_with_ranges' = << >>
    /\ IF ~dir_exists
       THEN /\ pcL' = "loaded"
            /\ listing' = << >>
       ELSE /\ pcL' = "loading"
            /\ listing' = sorted_listing
    /\ UNCHANGED <<inputVars, buildVars, files, ncorrupt, calls, harnessVars>>

\* lines 52-60: one file of the listing; pickle.load raises on an unreadable
\* artifact and the exception leaves load_tries
LoadFile ==
    /\ pcL = "loading"
    /\ listing # << >>
    /\ LET filename == output_file(Head(listing))
           pickled == files[Head(listing)]
       IN  IF ~endswith_pkl(filename)
           THEN UNCHANGED <<pcL, tries_with_ranges>>
           ELSE IF pickled.ok
           THEN /\ tries_with_ranges' =
                       Append(tries_with_ranges, registry_entry(pickled))
                /\ UNCHANGED pcL
           ELSE /\ pcL' = "raised"
                /\ UNCHANGED tries_with_ranges
    /\ listing' = Tail(listing)
    /\ UNCHANGED <<inputVars, buildVars, files, ncorrupt, calls, harnessVars>>

\* line 61: every file was visited
LoadDone ==
    /\ pcL = "loading"
    /\ listing = << >>
    /\ pcL' = "loaded"
    /\ UNCHANGED <<inputVars, buildVars, files, ncorrupt, listing,
                   tries_with_ranges, calls, harnessVars>>

-----------------------------------------------------------------------------
(* Text Matcher: CompanyNameSearcher.find_company_names *)

\* trie.iter(text): (end_index, value) for every occurrence of every word of
\* the trie in text; end_index is the 0-based index of its last character
trie_iter(trie, text) ==
    {<<st + Len(w) - 2, trie[w]>> :
        <<st, w>> \in {o \in (1..Len(text)) \X DOMAIN trie :
                          /\ o[1] + Len(o[2]) - 1 <= Len(text)
                          /\ SubSeq(text, o[1], o[1] + Len(o[2]) - 1) = o[2]}}

\* end_index - len(cleaned_keyword) + 1
start_index(end_index, cleaned_keyword) == end_index - Len(cleaned_keyword) + 1

\* lines 88-89
is_start_boundary(cleaned_text, st) ==
    LET pre_match_char == IF st > 0 THEN cleaned_text[(st - 1) + 1] ELSE " "
    IN  ~isalnum(pre_match_char)

\* the character after the match read one position too far
is_end_boundary_one_too_far(cleaned_text, end_index) ==
    LET post_match_char == IF end_index < Len(cleaned_text) - 2
                           THEN cleaned_text[(end_index + 2) + 1] ELSE " "
    IN  ~isalnum(post_match_char)

\* lines 92-93
is_end_boundary(cleaned_text, end_index) ==
    LET post_match_char == IF end_index < Len(cleaned_text) - 1
                           THEN cleaned_text[(end_index + 1) + 1] ELSE " "
    IN  ~isalnum(post_match_char)

\* the stop-word test applied to the keyword's first token instead of to
\* keywords without a space
RECURSIVE first_token(_)
first_token(s) ==
    IF s = << >> \/ Head(s) = " " THEN << >>
    ELSE <<Head(s)>> \o first_token(Tail(s))

is_stop_word_first_token(cleaned_keyword) ==
    Str(first_token(cleaned_keyword)) \in STOP_WORDS

\* line 97: ' ' not in cleaned_keyword and cleaned_keyword in STOP_WORDS
is_single_stop_word(cleaned_keyword) ==
    /\ \A k \in 1..Len(cleaned_keyword) : cleaned_keyword[k] # " "
    /\ Str(cleaned_keyword) \in STOP_WORDS

\* lines 95-101: whether the occurrence adds its original_name
adds_name(cleaned_text, end_index, cleaned_keyword) ==
    /\ is_start_boundary(cleaned_text, start_index(end_index, cleaned_keyword))
    /\ is_end_boundary(cleaned_text, end_index)
    /\ ~is_single_stop_word(cleaned_keyword)

\* found_names kept on the searcher, shared by the calls in flight, instead
\* of local to the call
scan_trie_shared_found_names(found_names, trie, cleaned_text) ==
    UNION {calls[c].found_names : c \in DOMAIN calls} \cup
        {o[2][1] : o \in {m \in trie_iter(trie, cleaned_text) :
                             adds_name(cleaned_text, m[1], m[2][2])}}

\* lines 78-104: the inner loop over one trie
scan_trie(found_names, trie, cleaned_text) ==
    found_names \cup
        {o[2][1] : o \in {m \in trie_iter(trie, cleaned_text) :
                             adds_name(cleaned_text, m[1], m[2][2])}}

\* lines 69-74: found_names = set(), clean the text, return [] when it is empty
FindStart(c, text) ==
    /\ pcL = "loaded"
    /\ calls[c].pc = "idle"
    /\ ~calls[c].returned
    /\ LET cleaned_text == clean_name_search(text)
       IN  calls' = [calls EXCEPT ![c] =
               IF cleaned_text = << >>
               THEN [pc |-> "idle", text |-> text, cleaned_text |-> cleaned_text,
                     k |-> 1, found_names |-> {}, returned |-> TRUE,
                     result |-> {}]
               ELSE [pc |-> "scan", text |-> text, cleaned_text |-> cleaned_text,
                     k |-> 1, found_names |-> {}, returned |-> FALSE,
                     result |-> {}]]
    /\ UNCHANGED <<inputVars, buildVars, files, ncorrupt, loadVars, harnessVars>>

\* lines 77-104: the outer loop's next trie of the registry
FindScan(c) ==
    /\ calls[c].pc = "scan"
    /\ calls[c].k <= Len(tries_with_ranges)
    /\ calls' = [calls EXCEPT
           ![c].found_names = scan_trie(calls[c].found_names,
                                        tries_with_ranges[calls[c].k][1],
                                        calls[c].cleaned_text),
           ![c].k = calls[c].k + 1]
    /\ UNCHANGED <<inputVars, buildVars, files, ncorrupt, loadVars, harnessVars>>

\* line 106: return list(found_names)
FindReturn(c) ==
    /\ calls[c].pc = "scan"
    /\ calls[c].k > Len(tries_with_ranges)
    /\ calls' = [calls EXCEPT ![c].pc = "idle",
                              ![c].returned = TRUE,
                              ![c].result = calls[c].found_names]
    /\ UNCHANGED <<inputVars, buildVars, files, ncorrupt, loadVars, harnessVars>>

\* process_candidates.py line 54: the caller stores the returned list in the
\* 'companies' column and goes on to the next text
Collect(c) ==
    /\ calls[c].pc = "idle"
    /\ calls[c].returned
    /\ calls' = [calls EXCEPT ![c] = NoCall]
    /\ UNCHANGED <<inputVars, buildVars, files, ncorrupt, loadVars, harnessVars>>

-----------------------------------------------------------------------------
(* Inputs *)

MaxNames == 2
MaxChunkSize == 2
MaxManyNames == 13

\* dictionary entries: a single stop word ("It"), plain names sharing one
\* key ("ti", "tI"), a phrase holding a stop word ("it ti"), a name with an
\* underscore ("t_i"), a name ending in punctuation ("ti ."), a name of
\* punctuation only ("."), and a null cell
RawNames ==
    {<<"I", "t">>, <<"t", "i">>, <<"t", "I">>, <<"i", "t", " ", "t", "i">>,
     <<"t", "_", "i">>, <<"t", "i", " ", ".">>, <<".">>, None}

\* what may stand before and after a name in a text
Separators == {<< >>, <<" ">>, <<".">>}

\* texts: no text, every name alone or between separators, and names inside
\* longer tokens, next to underscores, and repeated
Texts ==
    {None}
    \cup {pre \o r \o post : <<pre, r, post>> \in
              Separators \X (RawNames \ {None}) \X Separators}
    \cup {<<"t", "i", "t">>, <<"i", "t", "i">>, <<"I", "T">>,
          <<"t", "i", "_", "t">>, <<"_", "t", "i", "_">>,
          <<"t", "i", "t", " ", "t", "i">>,
          <<"i", "t", " ", "t", "i", "t">>,
          <<"i", "t", "i", "t", " ", "t", "i">>,
          <<"i", "t", " ", "i", "t", " ", "t", "i">>}

\* two callers on one searcher, over a smaller dictionary and fewer texts
ConcNames == {<<"I", "t">>, <<"t", "i">>, <<"i", "t", " ", "t", "i">>}

ConcTexts == {None, <<"t", "i">>, <<"i", "t", " ", "t", "i">>,
              <<"t", "i", "t", " ", "I", "t">>}

\* a long dictionary: the k-th name is "t" followed by k in binary written
\* with "i" for 0 and "t" for 1; every fourth cell holds only punctuation and
\* every seventh is the name before it with a capital, which has the same key
RECURSIVE binary_it(_)
binary_it(k) ==
    IF k < 2 THEN <<IF k = 0 THEN "i" ELSE "t">>
    ELSE binary_it(k \div 2) \o <<IF k % 2 = 0 THEN "i" ELSE "t">>

many_name(k) ==
    IF k % 4 = 0 THEN <<".">>
    ELSE IF k % 7 = 0 THEN <<"T">> \o binary_it(k - 1)
    ELSE <<"t">> \o binary_it(k)

ManyTexts == {None, many_name(1), many_name(2) \o <<" ">> \o many_name(3)}

\* the texts of the column the callers read
text_col ==
    CASE corpus = "texts" -> Texts
      [] corpus = "conc" -> ConcTexts
      [] corpus = "many" -> ManyTexts
      [] OTHER -> {}

-----------------------------------------------------------------------------
(* The pipeline: build, then load, then match *)

Next ==
    \/ BuildStart
    \/ BuildChunk
    \/ BuildDone
    \/ \E f \in DOMAIN files : Corrupt(f)
    \/ Construct
    \/ LoadFile
    \/ LoadDone
    \/ \E c \in DOMAIN calls : \E text \in text_col : FindStart(c, text)
    \/ \E c \in DOMAIN calls : FindScan(c)
    \/ \E c \in DOMAIN calls : FindReturn(c)
    \/ \E c \in DOMAIN calls : Collect(c)

-----------------------------------------------------------------------------
(* Initial states *)

SeqsUpTo(S, n) == UNION {[1..k -> S] : k \in 0..n}

Init ==
    /\ names \in SeqsUpTo(RawNames, MaxNames)
    /\ chunk_size \in 1..MaxChunkSize
    /\ corpus = "texts"
    /\ calls = [c \in {1} |-> NoCall]
    /\ PipelineIdle
    /\ HarnessIdle

Spec == Init /\ [][Next]_vars

InitConc ==
    /\ names \in SeqsUpTo(ConcNames, MaxNames)
    /\ chunk_size \in 1..MaxChunkSize
    /\ corpus = "conc"
    /\ calls = [c \in {1, 2} |-> NoCall]
    /\ PipelineIdle
    /\ HarnessIdle

SpecConc == InitConc /\ [][Next]_vars

InitMany ==
    /\ \E n \in 0..MaxManyNames : names = [k \in 1..n |-> many_name(k)]
    /\ chunk_size \in 1..MaxChunkSize
    /\ corpus = "many"
    /\ calls = [c \in {1} |-> NoCall]
    /\ PipelineIdle
    /\ HarnessIdle

SpecMany == InitMany /\ [][Next]_vars

-----------------------------------------------------------------------------
(* What the claims speak of, stated without the Matcher's own steps *)

Range(seq) == {seq[k] : k \in 1..Len(seq)}

\* the patterns of the loaded chunks: (CanonicalKey, RawName) pairs
Patterns(registry) ==
    UNION {{<<w, registry[k][1][w][1]>> : w \in DOMAIN registry[k][1]} :
              k \in 1..Len(registry)}

\* w occurs in text from position p on
OccursAt(w, text, p) ==
    /\ p + Len(w) - 1 <= Len(text)
    /\ SubSeq(text, p, p + Len(w) - 1) = w

\* an occurrence with no alphanumeric character right before or right after
WholeAt(w, text, p) ==
    /\ OccursAt(w, text, p)
    /\ p = 1 \/ ~isalnum(text[p - 1])
    /\ p + Len(w) - 1 = Len(text) \/ ~isalnum(text[p + Len(w)])

HasWhole(w, text) == \E p \in 1..Len(text) : WholeAt(w, text, p)

HasOccurrence(w, text) == \E p \in 1..Len(text) : OccursAt(w, text, p)

\* a key of one token that is a stop word
SingleStopWord(w) == " " \notin Range(w) /\ Str(w) \in STOP_WORDS

\* a key of several tokens, one of them a stop word
HasStopWordToken(w) ==
    /\ " " \in Range(w)
    /\ \E a \in 1..Len(w) : \E b \in a..Len(w) :
          /\ a = 1 \/ w[a - 1] = " "
          /\ b = Len(w) \/ w[b + 1] = " "
          /\ " " \notin Range(SubSeq(w, a, b))
          /\ Str(SubSeq(w, a, b)) \in STOP_WORDS

\* the names one call alone returns for a text against a registry
AloneResult(registry, text) ==
    LET cleaned == clean_name_search(text)
    IN  {pat[2] : pat \in {q \in Patterns(registry) :
                              HasWhole(q[1], cleaned) /\ ~SingleStopWord(q[1])}}

\* the calls that have returned
Returned == {c \in DOMAIN calls : calls[c].returned}

\* the number of dictionary entries with a non-empty CanonicalKey
NonEmptyEntries ==
    Cardinality({k \in 1..Len(names) : clean_name_build(names[k]) # << >>})

CeilDiv(n, c) == (n + c - 1) \div c

-----------------------------------------------------------------------------
(* Claims *)

\* C2: normalization is idempotent: clean_name(clean_name(x)) = clean_name(x)
\* for the build-time clean_name and for the query-time clean_name.
C2_Idempotent ==
    /\ cy.bb # Unset => cy.bb = cy.b
    /\ cy.ss # Unset => cy.ss = cy.s

\* C3: the Matcher's clean_name returns the same CanonicalKey as the
\* Builder's clean_name on every input.
C3_SameNormalization ==
    (cy.b # Unset /\ cy.s # Unset) => cy.b = cy.s

\* C1: exact match: a text that is exactly a RawName of the dictionary, alone
\* or between non-alphanumeric separators, returns that RawName once the
\* chunks built from the dictionary are loaded.  Stated for the names a
\* loaded chunk holds as a pattern's payload and whose key the stop-word
\* filter of C5 does not suppress.
C1_ExactMatch ==
    \A c \in Returned :
        (pcB = "done" /\ pcL = "loaded") =>
            \A pat \in Patterns(tries_with_ranges) :
                (/\ ~SingleStopWord(pat[1])
                 /\ \E pre \in Separators : \E post \in Separators :
                        calls[c].text = pre \o pat[2] \o post)
                    => pat[2] \in calls[c].result

\* C4: boundary rejection: every returned RawName has an occurrence of its
\* CanonicalKey in the normalized text with no alphanumeric character right
\* before it and none right after it; a key that occurs only inside longer
\* alphanumeric tokens is not returned.
C4_BoundaryRejection ==
    \A c \in Returned :
        \A r \in calls[c].result :
            \E pat \in Patterns(tries_with_ranges) :
                /\ pat[2] = r
                /\ HasWhole(pat[1], calls[c].cleaned_text)

\* C4 witness: a call returned for a text in which a loaded key occurs only
\* inside a longer alphanumeric token, and the key's name is not returned.
C4_Witness ==
    \E c \in Returned :
        \E pat \in Patterns(tries_with_ranges) :
            /\ HasOccurrence(pat[1], calls[c].cleaned_text)
            /\ ~HasWhole(pat[1], calls[c].cleaned_text)
            /\ ~SingleStopWord(pat[1])
            /\ pat[2] \notin calls[c].result

\* C5: stop-word filter: the name of a key with a boundary-correct occurrence
\* is left out exactly when the key has no space and is in STOP_WORDS; a
\* dictionary entry whose key is a single stop word is never returned, and a
\* key of several tokens is returned even when one token is a stop word.
C5_StopWordFilter ==
    \A c \in Returned :
        /\ \A pat \in Patterns(tries_with_ranges) :
               HasWhole(pat[1], calls[c].cleaned_text) =>
                   (pat[2] \notin calls[c].result <=> SingleStopWord(pat[1]))
        /\ \A k \in 1..Len(names) :
               SingleStopWord(clean_name_build(names[k])) =>
                   names[k] \notin calls[c].result

\* C5 witness: one returned call saw boundary-correct occurrences of a single
\* stop-word key and of a phrase with a stop-word token; only the phrase's
\* name is in the result.
C5_Witness ==
    \E c \in Returned :
        \E stop \in Patterns(tries_with_ranges) :
        \E phrase \in Patterns(tries_with_ranges) :
            /\ SingleStopWord(stop[1])
            /\ HasWhole(stop[1], calls[c].cleaned_text)
            /\ stop[2] \notin calls[c].result
            /\ HasStopWordToken(phrase[1])
            /\ HasWhole(phrase[1], calls[c].cleaned_text)
            /\ phrase[2] \in calls[c].result

\* C6: chunk count: with N entries of non-empty CanonicalKey and chunk size
\* C, the finished build has written exactly ceil(N/C) chunk artifacts, each
\* from at most C entries, and none when N = 0.
C6_ChunkCount ==
    pcB = "done" =>
        /\ trie_count = CeilDiv(NonEmptyEntries, chunk_size)
        /\ Cardinality(DOMAIN files) = CeilDiv(NonEmptyEntries, chunk_size)
        /\ DOMAIN files = 1..trie_count
        /\ Len(chunk_lens) = trie_count
        /\ \A k \in 1..Len(chunk_lens) :
               chunk_lens[k] >= 1 /\ chunk_lens[k] <= chunk_size
        /\ NonEmptyEntries = 0 => files = << >>

\* C6 witness: a finished build of several chunks whose last chunk is not
\* full, from a dictionary that also holds entries with an empty key.
C6_Witness ==
    /\ pcB = "done"
    /\ trie_count >= 3
    /\ NonEmptyEntries % chunk_size # 0
    /\ NonEmptyEntries < Len(names)

\* C7: missing chunk directory: construction completes without raising, the
\* registry is empty, and every find_company_names call returns nothing.
C7_MissingDirectory ==
    (pcL # "none" /\ ~dir_exists) =>
        /\ pcL = "loaded"
        /\ tries_with_ranges = << >>
        /\ \A c \in DOMAIN calls : calls[c].found_names = {}
        /\ \A c \in Returned : calls[c].result = {}

\* C7 witness: with the directory missing, a call on a text that names a
\* dictionary entry has returned, empty.
C7_Witness ==
    /\ ~dir_exists
    /\ pcL = "loaded"
    /\ \E c \in Returned :
           /\ calls[c].cleaned_text # << >>
           /\ \E k \in 1..Len(names) : calls[c].text = names[k]
           /\ calls[c].result = {}

\* C8: corrupt chunk during load: when deserializing a chunk artifact fails,
\* the load pass aborts and the registry does not hold the chunks loaded
\* before the failing artifact.
C8_NoPartialRegistry ==
    pcL = "raised" => tries_with_ranges = << >>

\* C9: the match phase is read-only: no step of a find_company_names call
\* changes the registry, and under every interleaving of calls each returned
\* result is the set the same call returns alone against that registry.
C9_ReadOnlyMatch ==
    /\ [][pcL = "loaded" => tries_with_ranges' = tries_with_ranges]_vars
    /\ [](\A c \in Returned :
             calls[c].result = AloneResult(tries_with_ranges, calls[c].text))

\* C9 witness: a call has returned names while another call, on another
\* text, is in the middle of its scan with names of its own found.
C9_Witness ==
    \E c \in Returned : \E d \in DOMAIN calls :
        /\ calls[c].result # {}
        /\ calls[d].pc = "scan"
        /\ calls[d].k > 1
        /\ calls[d].found_names # {}
        /\ calls[d].found_names # calls[c].result
        /\ Len(tries_with_ranges) >= 2

\* C10: load order: load_tries appends the chunks in the lexicographic order
\* of their file names, and that order is the build ordinal order: the k-th
\* registry entry is chunk k.
C10_LoadOrder ==
    (pcB = "done" /\ pcL = "loaded" /\ dir_exists) =>
        /\ Len(tries_with_ranges) = Cardinality(DOMAIN files)
        /\ \A k \in 1..Len(tries_with_ranges) :
               tries_with_ranges[k] =
                   registry_entry(files[ordinal_of(sorted(os_listdir)[k])])
        /\ \A k \in 1..Len(tries_with_ranges) :
               tries_with_ranges[k] = registry_entry(files[k])

\* the chunk artifacts, by n, that hold the key as a pattern
ChunksHolding(key) == {n \in DOMAIN files : key \in DOMAIN files[n].trie}

\* C11: partition invariant: after the build every non-empty CanonicalKey of
\* the dictionary is a pattern of exactly one chunk, also when several
\* RawNames share the key: no key is missing and no key is in two chunks.
C11_PartitionInvariant ==
    (pcB = "done" /\ ncorrupt = 0) =>
        \A k \in 1..Len(names) :
            LET key == clean_name_build(names[k])
            IN  key # << >> => Cardinality(ChunksHolding(key)) = 1

====
